---------------------------- MODULE Spec2Model ----------------------------
(***************************************************************************)
(* Wind-Forecast (src/app.py): one Flask endpoint, POST /api/forecast,     *)
(* that validates lat/lon, submits the coroutine fetch_openmeteo to a      *)
(* process-wide asyncio loop running on its own thread (_LoopRunner),      *)
(* blocks on the returned future for at most 30 seconds and serialises     *)
(* the reshaped series.                                                    *)
(*                                                                         *)
(* Strings that the program parses or formats (timestamps, the lat/lon     *)
(* texts of a JSON body) are sequences of one-character strings, so that   *)
(* str.replace, datetime.fromisoformat, datetime.isoformat and float()     *)
(* are computed and not assumed.  Messages that the program only copies    *)
(* are TLA+ strings.                                                       *)
(***************************************************************************)
EXTENDS Integers, Sequences, FiniteSets, TLC

VARIABLES
    tzLocal,    \* the server's local UTC offset in minutes (process environment)
    payload,    \* payload[r]: the JSON body of request r
    pc,         \* pc[r]: position of the serving thread of request r in api_forecast
    lat,        \* lat[r], lon[r], hours[r]: api_forecast's locals after validation
    lon,
    hours,
    waited,     \* waited[r]: seconds the serving thread has been blocked in fut.result (0 once it returned)
    futOf,      \* futOf[r]: the local `fut` of _LoopRunner.run (0: none yet)
    response,   \* response[r]: the HTTP response of request r
    queue,      \* the loop's ready queue: futures whose coroutine is not started yet
    futs        \* futs[f]: the f-th future made by run_coroutine_threadsafe, its task

vars == <<tzLocal, payload, pc, lat, lon, hours, waited, futOf, response, queue, futs>>

(***************************************************************************)
(* Characters and small text helpers.                                      *)
(***************************************************************************)
Digits == <<"0", "1", "2", "3", "4", "5", "6", "7", "8", "9">>

IsDigit(c) == \E i \in 1..10 : Digits[i] = c

DigitVal(c) == (CHOOSE i \in 1..10 : Digits[i] = c) - 1

RECURSIVE NumVal(_)
NumVal(s) == IF s = <<>> THEN 0 ELSE 10 * NumVal(SubSeq(s, 1, Len(s) - 1)) + DigitVal(s[Len(s)])

\* n written with w digits, zero padded (the %02d / %04d of isoformat)
RECURSIVE Pad(_, _)
Pad(n, w) == IF w = 0 THEN <<>> ELSE Pad(n \div 10, w - 1) \o <<Digits[(n % 10) + 1]>>

\* Python's s[a:b] for a >= 0: 0-based, b exclusive and clamped to the length, a
\* negative b counted from the end
Slice(s, a, b) ==
    LET stop == IF b < 0 THEN (IF Len(s) + b < 0 THEN 0 ELSE Len(s) + b)
                ELSE IF b < Len(s) THEN b ELSE Len(s)
    IN  SubSeq(s, a + 1, stop)

\* str.replace("Z", "+00:00"): every occurrence is replaced
RECURSIVE ReplaceZ(_)
ReplaceZ(s) ==
    IF s = <<>> THEN <<>>
    ELSE (IF s[1] = "Z" THEN <<"+", "0", "0", ":", "0", "0">> ELSE <<s[1]>>) \o ReplaceZ(Tail(s))

(***************************************************************************)
(* datetime.  A datetime is its fields; aware = FALSE is a naive datetime  *)
(* (tzinfo None), for which off is 0 and unused.  off is in minutes.       *)
(* Microseconds are left out: no input of the model carries a fraction.    *)
(***************************************************************************)
DateTime(y, mo, d, h, mi, s, aware, off) ==
    [y |-> y, mo |-> mo, d |-> d, h |-> h, mi |-> mi, s |-> s, aware |-> aware, off |-> off]

IsLeap(y) == (y % 4 = 0) /\ ((y % 100 # 0) \/ (y % 400 = 0))

DaysInMonth(y, mo) ==
    IF mo = 2 THEN (IF IsLeap(y) THEN 29 ELSE 28)
    ELSE IF mo \in {4, 6, 9, 11} THEN 30 ELSE 31

\* days from 1970-01-01 to y-mo-d in the proleptic Gregorian calendar
DaysFromCivil(y, mo, d) ==
    LET yy  == IF mo <= 2 THEN y - 1 ELSE y
        era == yy \div 400
        yoe == yy - era * 400
        mp  == (mo + 9) % 12
        doy == (153 * mp + 2) \div 5 + d - 1
        doe == yoe * 365 + yoe \div 4 - yoe \div 100 + doy
    IN  era * 146097 + doe - 719468

\* the calendar date of day number z (days since 1970-01-01)
CivilFromDays(z) ==
    LET zz  == z + 719468
        era == zz \div 146097
        doe == zz - era * 146097
        yoe == (doe - doe \div 1460 + doe \div 36524 - doe \div 146096) \div 365
        doy == doe - (365 * yoe + yoe \div 4 - yoe \div 100)
        mp  == (5 * doy + 2) \div 153
        d   == doy - (153 * mp + 2) \div 5 + 1
        mo  == IF mp < 10 THEN mp + 3 ELSE mp - 9
        y   == yoe + era * 400 + (IF mo <= 2 THEN 1 ELSE 0)
    IN  [y |-> y, mo |-> mo, d |-> d]

\* the wall-clock fields as seconds since 1970-01-01T00:00:00 on the same clock
WallSeconds(dt) == DaysFromCivil(dt.y, dt.mo, dt.d) * 86400 + dt.h * 3600 + dt.mi * 60 + dt.s

\* datetime.timestamp(): an aware value by its own offset, a naive one as local time
Timestamp(dt, tz) == WallSeconds(dt) - 60 * (IF dt.aware THEN dt.off ELSE tz)

\* datetime.fromtimestamp(ts) with tz=None: the naive LOCAL date and time of ts
FromTimestamp(ts, tz) ==
    LET loc == ts + 60 * tz
        day == loc \div 86400
        sod == loc - day * 86400
        c   == CivilFromDays(day)
    IN  DateTime(c.y, c.mo, c.d, sod \div 3600, (sod % 3600) \div 60, sod % 60, FALSE, 0)

(***************************************************************************)
(* datetime.fromisoformat, for the texts both CPython grammars accept      *)
(* alike: YYYY-MM-DD, then optionally one separator character and          *)
(* HH[:MM[:SS]], then optionally +HH:MM or -HH:MM.  Anything else raises   *)
(* ValueError (ok = FALSE).                                                *)
(***************************************************************************)
NoDateTime == DateTime(1, 1, 1, 0, 0, 0, FALSE, 0)

\* HH, HH:MM or HH:MM:SS, every field two digits
ParseHMS(t) ==
    LET n    == Len(t)
        form == /\ n \in {2, 5, 8}
                /\ \A i \in 1..n : IF i \in {3, 6} THEN t[i] = ":" ELSE IsDigit(t[i])
    IN  IF ~form THEN [ok |-> FALSE, h |-> 0, mi |-> 0, s |-> 0]
        ELSE [ok |-> TRUE,
              h  |-> NumVal(SubSeq(t, 1, 2)),
              mi |-> IF n >= 5 THEN NumVal(SubSeq(t, 4, 5)) ELSE 0,
              s  |-> IF n >= 8 THEN NumVal(SubSeq(t, 7, 8)) ELSE 0]

\* the first index of t holding "+" or "-", 0 when there is none
SignPos(t) ==
    LET hits == {i \in 1..Len(t) : t[i] \in {"+", "-"}}
    IN  IF hits = {} THEN 0 ELSE CHOOSE i \in hits : \A j \in hits : i <= j

ParseDate(dstr) ==
    LET form == /\ Len(dstr) = 10
                /\ \A i \in 1..10 : IF i \in {5, 8} THEN dstr[i] = "-" ELSE IsDigit(dstr[i])
        y    == NumVal(SubSeq(dstr, 1, 4))
        mo   == NumVal(SubSeq(dstr, 6, 7))
        d    == NumVal(SubSeq(dstr, 9, 10))
    IN  IF form /\ y >= 1 /\ mo \in 1..12 /\ d >= 1 /\ d <= DaysInMonth(y, mo)
        THEN [ok |-> TRUE, y |-> y, mo |-> mo, d |-> d]
        ELSE [ok |-> FALSE, y |-> 1, mo |-> 1, d |-> 1]

FromIsoFormat(s) ==
    LET date == ParseDate(Slice(s, 0, 10))
        tstr == Slice(s, 11, Len(s))
        p    == SignPos(tstr)
        hms  == ParseHMS(IF p = 0 THEN tstr ELSE SubSeq(tstr, 1, p - 1))
        tzs  == IF p = 0 THEN <<>> ELSE SubSeq(tstr, p + 1, Len(tstr))
        tz   == ParseHMS(tzs)
        sign == IF p # 0 /\ tstr[p] = "-" THEN -1 ELSE 1
        fail == [ok |-> FALSE, dt |-> NoDateTime]
    IN  IF ~date.ok THEN fail
        ELSE IF Len(s) = 10
             THEN [ok |-> TRUE, dt |-> DateTime(date.y, date.mo, date.d, 0, 0, 0, FALSE, 0)]
        ELSE IF ~(hms.ok /\ hms.h < 24 /\ hms.mi < 60 /\ hms.s < 60) THEN fail
        ELSE IF p = 0
             THEN [ok |-> TRUE,
                   dt |-> DateTime(date.y, date.mo, date.d, hms.h, hms.mi, hms.s, FALSE, 0)]
        ELSE IF ~(tz.ok /\ Len(tzs) = 5 /\ tz.h < 24 /\ tz.mi < 60) THEN fail
        ELSE [ok |-> TRUE,
              dt |-> DateTime(date.y, date.mo, date.d, hms.h, hms.mi, hms.s, TRUE,
                              sign * (60 * tz.h + tz.mi))]

\* datetime.isoformat(): YYYY-MM-DDTHH:MM:SS, and +HH:MM / -HH:MM when aware
IsoFormat(dt) ==
    LET a == IF dt.off < 0 THEN -dt.off ELSE dt.off
    IN  Pad(dt.y, 4) \o <<"-">> \o Pad(dt.mo, 2) \o <<"-">> \o Pad(dt.d, 2) \o <<"T">>
        \o Pad(dt.h, 2) \o <<":">> \o Pad(dt.mi, 2) \o <<":">> \o Pad(dt.s, 2)
        \o (IF ~dt.aware THEN <<>>
            ELSE <<IF dt.off < 0 THEN "-" ELSE "+">> \o Pad(a \div 60, 2) \o <<":">> \o Pad(a % 60, 2))

(***************************************************************************)
(* A raw element of forecast.hourly.time: a datetime instance, or any      *)
(* other value, of which the code reads only str(t).                       *)
(***************************************************************************)
RawDt(dt) == [isdt |-> TRUE, dt |-> dt, text |-> <<>>]

RawStr(s) == [isdt |-> FALSE, dt |-> NoDateTime, text |-> s]

\* fetch_openmeteo's loop body: one raw timestamp to one datetime
NormalizeTime(t, tz) ==
    IF t.isdt THEN t.dt
    ELSE LET parsed == FromIsoFormat(ReplaceZ(t.text))
         IN  IF parsed.ok THEN parsed.dt ELSE FromTimestamp(0, tz)


(***************************************************************************)
(* Program constants and the bounds of the model.                          *)
(***************************************************************************)
HORIZON == 120

TIMEOUT == 30

NumReq == 2

TickSeconds == 15

MaxLen == 3

Extra == 1

Requests == 1..NumReq

LocalOffsets == {-300, 0, 60}

Max(a, b) == IF a >= b THEN a ELSE b

Min(a, b) == IF a <= b THEN a ELSE b

(***************************************************************************)
(* The JSON body.  A member is absent or a JSON value; numbers are kept in *)
(* thousandths (41.5 is 41500).                                            *)
(***************************************************************************)
JAbsent == [t |-> "absent", n |-> 0, s |-> <<>>]

JNull == [t |-> "null", n |-> 0, s |-> <<>>]

JList == [t |-> "list", n |-> 0, s |-> <<>>]

JBool(b) == [t |-> "bool", n |-> IF b THEN 1000 ELSE 0, s |-> <<>>]

JNum(n) == [t |-> "num", n |-> n, s |-> <<>>]

JStr(s) == [t |-> "str", n |-> 0, s |-> s]

\* float(str), for the texts [+-]digits[.digits] (up to three decimals)
ParseFloat(s) ==
    LET signed == s # <<>> /\ s[1] \in {"+", "-"}
        body   == IF signed THEN Tail(s) ELSE s
        dots   == {i \in 1..Len(body) : body[i] = "."}
        dot    == IF dots = {} THEN Len(body) + 1 ELSE CHOOSE i \in dots : TRUE
        ip     == SubSeq(body, 1, dot - 1)
        fp     == SubSeq(body, dot + 1, Len(body))
        form   == /\ Cardinality(dots) <= 1
                  /\ Len(ip) + Len(fp) >= 1
                  /\ Len(fp) <= 3
                  /\ \A i \in 1..Len(body) : i = dot \/ IsDigit(body[i])
        mag    == 1000 * NumVal(ip) + NumVal(fp \o SubSeq(<<"0", "0", "0">>, 1, 3 - Len(fp)))
    IN  IF ~form THEN [ok |-> FALSE, v |-> 0]
        ELSE [ok |-> TRUE, v |-> IF signed /\ s[1] = "-" THEN -mag ELSE mag]

\* float(x) of a JSON value: [ok, v], or the exception it raises
ToFloat(x) ==
    IF x.t \in {"num", "bool"} THEN [ok |-> TRUE, v |-> x.n, exc |-> ""]
    ELSE IF x.t = "str"
         THEN LET f == ParseFloat(x.s)
              IN  [ok |-> f.ok, v |-> f.v, exc |-> IF f.ok THEN "" ELSE "ValueError"]
    ELSE [ok |-> FALSE, v |-> 0, exc |-> "TypeError"]

\* api_forecast's first try block: request.get_json, payload["lat"], payload["lon"]
Body(shape, la, lo, h) == [shape |-> shape, lat |-> la, lon |-> lo, hours |-> h]

\* a variant that wires the body's hours member through
HoursFromBody(p) == IF p.hours.t = "num" THEN p.hours.n \div 1000 ELSE HORIZON

\* `hours = 120 # 5 days`: the body's hours member is never read
RequestedHours(p) == HORIZON

\* a variant that checks only that lat and lon are present
ValidatePresence(p) ==
    LET fail(e) == [ok |-> FALSE, lat |-> 0, lon |-> 0, hours |-> 0, exc |-> e]
    IN  IF p.shape = "malformed" THEN fail("BadRequest")
        ELSE IF p.shape # "object" THEN fail("TypeError")
        ELSE IF p.lat.t = "absent" \/ p.lon.t = "absent" THEN fail("KeyError")
        ELSE [ok |-> TRUE, lat |-> ToFloat(p.lat).v, lon |-> ToFloat(p.lon).v,
              hours |-> RequestedHours(p), exc |-> ""]

Validate(p) ==
    LET fail(e) == [ok |-> FALSE, lat |-> 0, lon |-> 0, hours |-> 0, exc |-> e]
        la == ToFloat(p.lat)
        lo == ToFloat(p.lon)
    IN  IF p.shape = "malformed" THEN fail("BadRequest")
        ELSE IF p.shape # "object" THEN fail("TypeError")
        ELSE IF p.lat.t = "absent" THEN fail("KeyError")
        ELSE IF ~la.ok THEN fail(la.exc)
        ELSE IF p.lon.t = "absent" THEN fail("KeyError")
        ELSE IF ~lo.ok THEN fail(lo.exc)
        ELSE [ok |-> TRUE, lat |-> la.v, lon |-> lo.v, hours |-> RequestedHours(p), exc |-> ""]


(***************************************************************************)
(* The remote call's outcome: it raises, or it returns a forecast whose    *)
(* hourly arrays are sequences, some of them possibly None.                *)
(***************************************************************************)
Forecast(tm, wd, ws, wg, none) ==
    [raises |-> FALSE, text |-> "", time |-> tm, wind_dir |-> wd, wind_speed |-> ws,
     wind_gust |-> wg, none |-> none]

RemoteError(text) ==
    [raises |-> TRUE, text |-> text, time |-> <<>>, wind_dir |-> <<>>, wind_speed |-> <<>>,
     wind_gust |-> <<>>, none |-> {}]

NoForecast == Forecast(<<>>, <<>>, <<>>, <<>>, {})

NoSeries == [time_dt |-> <<>>, wind_dir |-> <<>>, wind_speed |-> <<>>, wind_gust |-> <<>>]

\* variants: an off-by-one horizon, and a horizon without the max(1, .) clamp
NhoursPlusOne(h) == Max(1, h) + 1

NhoursUnclamped(h) == h

\* nhours = max(1, int(hours))
Nhours(h) == Max(1, h)

\* a variant that inserts each datetime at the front of times_dt
TimesPrepended(tm, tz) == [i \in 1..Len(tm) |-> NormalizeTime(tm[Len(tm) + 1 - i], tz)]

\* the loop over hourly_time: times_dt gets one datetime per element, appended in turn
TimesInOrder(tm, tz) == [i \in 1..Len(tm) |-> NormalizeTime(tm[i], tz)]

\* fetch_openmeteo after the await: the returned dict, or the exception raised
Fetch(fc, h, tz) ==
    LET n  == Nhours(h)
        tm == Slice(fc.time, 0, n)
    IN  IF fc.raises THEN [ok |-> FALSE, exc |-> "OpenMeteoError", text |-> fc.text, series |-> NoSeries]
        ELSE IF fc.none # {}
             THEN [ok |-> FALSE, exc |-> "TypeError",
                   text |-> "'NoneType' object is not subscriptable", series |-> NoSeries]
        ELSE [ok |-> TRUE, exc |-> "", text |-> "",
              series |-> [time_dt    |-> TimesInOrder(tm, tz),
                          wind_dir   |-> Slice(fc.wind_dir, 0, n),
                          wind_speed |-> Slice(fc.wind_speed, 0, n),
                          wind_gust  |-> Slice(fc.wind_gust, 0, n)]]

(***************************************************************************)
(* Futures.  run_coroutine_threadsafe makes one future per call and        *)
(* schedules its coroutine on the loop; the record holds the coroutine's   *)
(* arguments, its position and what it left in the future.                 *)
(***************************************************************************)
NewFuture(r, la, lo, h) ==
    [req |-> r, lat |-> la, lon |-> lo, hours |-> h, state |-> "queued", calls |-> 0,
     forecast |-> NoForecast, ok |-> FALSE, exc |-> "", text |-> "", series |-> NoSeries]

\* a variant that calls the remote service once more when the call raises
CompletedWithRetry(fut, fc, tz) ==
    LET out == Fetch(fc, fut.hours, tz)
    IN  IF fc.raises /\ fut.calls < 2 THEN [fut EXCEPT !.calls = @ + 1]
        ELSE [fut EXCEPT !.state = "finished", !.forecast = fc, !.ok = out.ok, !.exc = out.exc,
                         !.text = out.text, !.series = out.series]

\* the coroutine resumed with the remote outcome fc runs to its end: the future holds
\* its return value or its exception
Completed(fut, fc, tz) ==
    LET out == Fetch(fc, fut.hours, tz)
    IN  [fut EXCEPT !.state = "finished", !.forecast = fc, !.ok = out.ok, !.exc = out.exc,
                    !.text = out.text, !.series = out.series]

\* a variant in which run keeps its future in a slot shared by all callers
LatestFuture(r) == Len(futs)

\* the future whose result() the serving thread of r waits on: run's local `fut`
WaitedFuture(r) == futOf[r]

\* a variant of run that waits with timeout=None
ExpiredNever(r) == FALSE

\* whether fut.result(timeout=30) has used up its timeout
Expired(r) == waited[r] >= TIMEOUT

\* a variant that cancels the operation when the caller times out
CancelOnTimeout(fs, f) == [fs EXCEPT ![f].state = "cancelled"]

\* what the timeout leaves of the futures: result() raising touches nothing
AfterTimeout(fs, f) == fs

(***************************************************************************)
(* Responses.  error is the message as the code composes it: its literal   *)
(* text, then the interpolated text.  exc (the class of the exception      *)
(* caught) and op (the future read) are history, not part of the body.     *)
(***************************************************************************)
NoMeta == [lat |-> 0, lon |-> 0, hours |-> 0, unit |-> ""]

NoResponse ==
    [status |-> 0, error |-> <<>>, time |-> <<>>, wind_dir |-> <<>>, wind_speed |-> <<>>,
     wind_gust |-> <<>>, meta |-> NoMeta, exc |-> "", op |-> 0]

InvalidPayload(e) ==
    [NoResponse EXCEPT !.status = 400,
                       !.error = <<"Invalid payload. Provide lat, lon, optional hours.">>,
                       !.exc = e]

FetchFailed(e, text, f) ==
    [NoResponse EXCEPT !.status = 500, !.error = <<"Forecast fetch failed: ", text>>,
                       !.exc = e, !.op = f]

ForecastOk(series, la, lo, h, f) ==
    [NoResponse EXCEPT !.status = 200,
                       !.time = [i \in 1..Len(series.time_dt) |-> IsoFormat(series.time_dt[i])],
                       !.wind_dir = series.wind_dir,
                       !.wind_speed = series.wind_speed,
                       !.wind_gust = series.wind_gust,
                       !.meta = [lat |-> la, lon |-> lo, hours |-> h, unit |-> "knots"],
                       !.op = f]

(***************************************************************************)
(* api_forecast up to the point where the serving thread blocks: the       *)
(* validation, and on success _LoopRunner.run's submission.                *)
(***************************************************************************)
Receive(r, p) ==
    /\ pc[r] = "idle"
    /\ payload' = [payload EXCEPT ![r] = p]
    /\ LET v == Validate(p)
           f == Len(futs) + 1
       IN  IF ~v.ok
           THEN /\ response' = [response EXCEPT ![r] = InvalidPayload(v.exc)]
                /\ pc' = [pc EXCEPT ![r] = "done"]
                /\ UNCHANGED <<lat, lon, hours, futOf, queue, futs>>
           ELSE /\ lat' = [lat EXCEPT ![r] = v.lat]
                /\ lon' = [lon EXCEPT ![r] = v.lon]
                /\ hours' = [hours EXCEPT ![r] = v.hours]
                /\ futs' = Append(futs, NewFuture(r, v.lat, v.lon, v.hours))
                /\ queue' = Append(queue, f)
                /\ futOf' = [futOf EXCEPT ![r] = f]
                /\ pc' = [pc EXCEPT ![r] = "blocked"]
                /\ UNCHANGED response
    /\ UNCHANGED <<tzLocal, waited>>

\* the loop thread takes the next scheduled coroutine and runs it to its await:
\* the one remote call is issued
LoopStart ==
    /\ queue # <<>>
    /\ LET f == Head(queue)
       IN  futs' = [futs EXCEPT ![f].state = "awaiting", ![f].calls = @ + 1]
    /\ queue' = Tail(queue)
    /\ UNCHANGED <<tzLocal, payload, pc, lat, lon, hours, waited, futOf, response>>

\* the remote call of future f ends with outcome fc; the coroutine runs to its end
RemoteReturn(f, fc) ==
    /\ futs[f].state = "awaiting"
    /\ futs' = [futs EXCEPT ![f] = Completed(futs[f], fc, tzLocal)]
    /\ UNCHANGED <<tzLocal, payload, pc, lat, lon, hours, waited, futOf, response, queue>>

\* time passes for a serving thread blocked in fut.result(timeout=30)
Tick(r) ==
    /\ pc[r] = "blocked"
    /\ ~Expired(r)
    /\ waited' = [waited EXCEPT ![r] = Min(@ + TickSeconds, TIMEOUT)]
    /\ UNCHANGED <<tzLocal, payload, pc, lat, lon, hours, futOf, response, queue, futs>>

\* fut.result raises TimeoutError; api_forecast's except turns it into the 500
TimeoutFire(r) ==
    /\ pc[r] = "blocked"
    /\ Expired(r)
    /\ futs[WaitedFuture(r)].state # "finished"
    /\ response' = [response EXCEPT ![r] = FetchFailed("TimeoutError", "", 0)]
    /\ pc' = [pc EXCEPT ![r] = "done"]
    /\ waited' = [waited EXCEPT ![r] = 0]
    /\ futs' = AfterTimeout(futs, WaitedFuture(r))
    /\ UNCHANGED <<tzLocal, payload, lat, lon, hours, futOf, queue>>

\* fut.result returns or re-raises what the coroutine left; api_forecast answers
Deliver(r) ==
    /\ pc[r] = "blocked"
    /\ LET f   == WaitedFuture(r)
           fut == futs[f]
       IN  /\ fut.state = "finished"
           /\ response' = [response EXCEPT ![r] =
                  IF fut.ok THEN ForecastOk(fut.series, lat[r], lon[r], hours[r], f)
                  ELSE FetchFailed(fut.exc, fut.text, f)]
    /\ pc' = [pc EXCEPT ![r] = "done"]
    /\ waited' = [waited EXCEPT ![r] = 0]
    /\ UNCHANGED <<tzLocal, payload, lat, lon, hours, futOf, queue, futs>>


(***************************************************************************)
(* Inputs.  The remote service answers for the location asked: the wind    *)
(* values are seeded by lat and lon, the times are hourly from             *)
(* 2024-01-01T00:00:00 (naive datetimes, as the client library parses      *)
(* them).                                                                  *)
(***************************************************************************)
TextZ ==
    <<"2", "0", "2", "4", "-", "0", "1", "-", "0", "1", "T",
      "0", "0", ":", "0", "0", ":", "0", "0", "Z">>

TextOffset ==
    <<"2", "0", "2", "4", "-", "0", "1", "-", "0", "1", "T",
      "0", "2", ":", "0", "0", ":", "0", "0", "+", "0", "1", ":", "0", "0">>

TextGarbage == <<"n", "o", "t", "-", "a", "-", "d", "a", "t", "e">>

SeedOf(la, lo) == ((la + lo) \div 1000) % 360

Hourly(L) ==
    [i \in 1..L |-> RawDt(FromTimestamp(86400 * DaysFromCivil(2024, 1, 1) + 3600 * (i - 1), 0))]

WindDir(L, seed) == [i \in 1..L |-> (seed + 10 * i) % 360]

WindSpeed(L, seed) == [i \in 1..L |-> (seed + i) % 40]

WindGust(L, seed) == [i \in 1..L |-> ((seed + i) % 40) + 5]

Aligned(L, seed) == Forecast(Hourly(L), WindDir(L, seed), WindSpeed(L, seed), WindGust(L, seed), {})

Reverse(q) == [i \in 1..Len(q) |-> q[Len(q) + 1 - i]]

\* bodies and outcomes of the concurrent runs: request r asks for latitude r
SmallBodies(r) ==
    { Body("object", JNum(1000 * r), JNum(-71000), JAbsent),
      Body("object", JAbsent, JNum(-71000), JAbsent) }

SmallOutcomes(la, lo) ==
    { Aligned(2, SeedOf(la, lo)),
      RemoteError("Connection reset by peer"),
      [Aligned(2, SeedOf(la, lo)) EXCEPT !.none = {"wind_gust"}] }

\* bodies and outcomes of the single-request runs
LatValues ==
    { JAbsent, JNull, JList, JBool(TRUE), JNum(41500),
      JStr(<<"4", "1", ".", "5">>), JStr(<<"a", "b", "c">>), JStr(<<>>) }

LonValues == { JAbsent, JNull, JNum(-71000), JStr(<<"-", "7", "1">>), JStr(<<"7", "1", "W">>) }

HoursValues == { JAbsent, JNum(24000), JStr(<<"a", "b", "c">>) }

ApiBodies ==
    { Body("object", la, lo, h) : la \in LatValues, lo \in LonValues, h \in HoursValues }
    \cup { Body("array", JAbsent, JAbsent, JAbsent), Body("malformed", JAbsent, JAbsent, JAbsent) }

ApiLens == {0, 1, HORIZON, HORIZON + Extra}

ApiOutcomes(la, lo) ==
    LET seed == SeedOf(la, lo)
        long == HORIZON + Extra
    IN  { Aligned(L, seed) : L \in ApiLens }
        \cup { Forecast(Hourly(long), WindDir(long, seed), WindSpeed(long, seed), WindGust(1, seed), {}),
               Forecast(Hourly(1), WindDir(HORIZON, seed), WindSpeed(HORIZON, seed),
                        WindGust(HORIZON, seed), {}),
               [Aligned(3, seed) EXCEPT !.time = [Hourly(3) EXCEPT ![2] = RawStr(TextGarbage)]],
               [Aligned(3, seed) EXCEPT !.time = Reverse(Hourly(3))],
               [Aligned(2, seed) EXCEPT !.time = <<RawStr(TextZ), RawStr(TextOffset)>>],
               [Aligned(2, seed) EXCEPT !.none = {"time"}],
               RemoteError("Connection reset by peer") }

\* inputs of fetch_openmeteo called directly
FetchHours == -2..3

RawKinds ==
    { RawDt(DateTime(2024, 1, 1, 0, 0, 0, FALSE, 0)), RawStr(TextZ), RawStr(TextOffset),
      RawStr(TextGarbage) }

FetchOutcomes ==
    { Forecast(tm, WindDir(L, 90), WindSpeed(L, 10), WindGust(L, 10), {}) :
          tm \in UNION { [1..n -> RawKinds] : n \in 0..MaxLen }, L \in 0..MaxLen }

(***************************************************************************)
(* Specifications.                                                         *)
(***************************************************************************)
NoBody == Body("none", JAbsent, JAbsent, JAbsent)

InitRequests(zones) ==
    /\ tzLocal \in zones
    /\ payload = [r \in Requests |-> NoBody]
    /\ pc = [r \in Requests |-> "idle"]
    /\ lat = [r \in Requests |-> 0]
    /\ lon = [r \in Requests |-> 0]
    /\ hours = [r \in Requests |-> 0]
    /\ waited = [r \in Requests |-> 0]
    /\ futOf = [r \in Requests |-> 0]
    /\ response = [r \in Requests |-> NoResponse]

\* NumReq serving threads and the loop thread, in any interleaving; the remote times
\* of these runs are datetimes, which the local zone does not touch
Init ==
    /\ InitRequests({0})
    /\ queue = <<>>
    /\ futs = <<>>

Next ==
    \/ \E r \in Requests : \E p \in SmallBodies(r) : Receive(r, p)
    \/ LoopStart
    \/ \E f \in 1..Len(futs) : \E fc \in SmallOutcomes(futs[f].lat, futs[f].lon) : RemoteReturn(f, fc)
    \/ \E r \in Requests : Tick(r)
    \/ \E r \in Requests : TimeoutFire(r)
    \/ \E r \in Requests : Deliver(r)

Spec == Init /\ [][Next]_vars

\* the serving threads are scheduled and their clocks run; the remote service owes nothing
Fairness ==
    \A r \in Requests : WF_vars(Tick(r)) /\ WF_vars(TimeoutFire(r)) /\ WF_vars(Deliver(r))

SpecLive == Spec /\ Fairness

\* one request, every shape of body, remote arrays up to beyond the horizon
NextApi ==
    \/ \E p \in ApiBodies : Receive(1, p)
    \/ LoopStart
    \/ \E f \in 1..Len(futs) : \E fc \in ApiOutcomes(futs[f].lat, futs[f].lon) : RemoteReturn(f, fc)
    \/ Tick(1)
    \/ TimeoutFire(1)
    \/ Deliver(1)

InitApi ==
    /\ InitRequests(LocalOffsets)
    /\ queue = <<>>
    /\ futs = <<>>

SpecApi == InitApi /\ [][NextApi]_vars

\* fetch_openmeteo(lat, lon, hours) scheduled on the loop directly, for any hours
InitFetch ==
    /\ InitRequests(LocalOffsets)
    /\ queue = <<1>>
    /\ \E h \in FetchHours : futs = <<NewFuture(0, 41500, -71000, h)>>

NextFetch ==
    \/ LoopStart
    \/ \E f \in 1..Len(futs) : \E fc \in FetchOutcomes : RemoteReturn(f, fc)

SpecFetch == InitFetch /\ [][NextFetch]_vars


(***************************************************************************)
(* Properties.                                                             *)
(***************************************************************************)
Answered(r) == pc[r] = "done"

Ok200(r) == Answered(r) /\ response[r].status = 200

TimedOut(r) == Answered(r) /\ response[r].exc = "TimeoutError"

\* the remote forecast the coroutine of request r was given
ForecastOf(r) == futs[futOf[r]].forecast

FourLengths(x) == {Len(x.time), Len(x.wind_dir), Len(x.wind_speed), Len(x.wind_gust)}

\* C1 as claimed: every successful response carries four arrays of one length, and
\* that length is at most 120, whatever the remote response was.
C1_EqualLengthAlways ==
    \A r \in Requests :
        Ok200(r) => /\ Cardinality(FourLengths(response[r])) = 1
                    /\ Len(response[r].time) <= 120

\* C1 amended: in a successful response each array is as long as the shorter of 120
\* and its own remote array, hence at most 120; the four lengths are identical
\* whenever the four remote arrays have one length.
C1_LengthPerArray ==
    \A r \in Requests :
        Ok200(r) =>
            LET fc  == ForecastOf(r)
                out == response[r]
            IN  /\ Len(out.time) = Min(120, Len(fc.time))
                /\ Len(out.wind_dir) = Min(120, Len(fc.wind_dir))
                /\ Len(out.wind_speed) = Min(120, Len(fc.wind_speed))
                /\ Len(out.wind_gust) = Min(120, Len(fc.wind_gust))
                /\ \A n \in FourLengths(out) : n <= 120
                /\ (Cardinality(FourLengths(fc)) = 1 => Cardinality(FourLengths(out)) = 1)

C1_Witness ==
    \E r \in Requests :
        /\ Ok200(r)
        /\ FourLengths(ForecastOf(r)) = {HORIZON + Extra}
        /\ FourLengths(response[r]) = {120}

\* a body that is a JSON object without lat or lon, or with one that float() rejects
BadBody(p) ==
    /\ p.shape = "object"
    /\ \/ p.lat.t = "absent"
       \/ p.lon.t = "absent"
       \/ ~ToFloat(p.lat).ok
       \/ ~ToFloat(p.lon).ok

\* C2: a request whose body lacks lat or lon, or holds one that is not
\* float-parseable, is answered 400 with exactly the fixed error message and nothing
\* else, without any fetch being submitted: never 200, never 500.
C2_InvalidPayload400 ==
    \A r \in Requests :
        (pc[r] # "idle" /\ BadBody(payload[r])) =>
            /\ Answered(r)
            /\ futOf[r] = 0
            /\ response[r].status = 400
            /\ response[r].error = <<"Invalid payload. Provide lat, lon, optional hours.">>
            /\ FourLengths(response[r]) = {0}
            /\ response[r].meta = NoMeta

C2_Witness ==
    \E r \in Requests :
        /\ Answered(r)
        /\ ToFloat(payload[r].lat).ok
        /\ payload[r].lon.t = "str"
        /\ ~ToFloat(payload[r].lon).ok
        /\ response[r].status = 400

\* C3: a serving thread blocked in run always gets out; when it gets out while its
\* operation has not completed, the 30 seconds are used up, the failure is the
\* timeout, and the answer is 500 with a message that starts "Forecast fetch failed".
C3_TimeoutEndsRequest ==
    /\ \A r \in Requests : (pc[r] = "blocked") ~> Answered(r)
    /\ [][\A r \in Requests :
            (pc[r] = "blocked" /\ Answered(r)' /\ futs[futOf[r]].state # "finished") =>
                /\ waited[r] >= 30
                /\ response'[r].status = 500
                /\ response'[r].exc = "TimeoutError"
                /\ response'[r].error[1] = "Forecast fetch failed: "]_vars

C3_Witness ==
    \E r \in Requests :
        /\ TimedOut(r)
        /\ response[r].status = 500
        /\ futs[futOf[r]].state = "awaiting"

\* C4: the step in which run times out changes no future and nothing on the loop (no
\* cancellation); the answer given then is final, also when the orphaned operation
\* finishes later; and no answer is ever read from a future whose caller timed out.
C4_TimeoutCancelsNothing ==
    /\ [][\A r \in Requests :
            (pc[r] = "blocked" /\ TimedOut(r)') => (futs' = futs /\ queue' = queue)]_vars
    /\ [][\A r \in Requests :
            Answered(r) => (Answered(r)' /\ response'[r] = response[r])]_vars
    /\ [](\A r, q \in Requests : (TimedOut(r) /\ Answered(q)) => response[q].op # futOf[r])
    /\ [](\A f \in 1..Len(futs) : futs[f].state \in {"queued", "awaiting", "finished"})

\* the orphan of a timed-out request has run to its end, with a result nobody reads
C4_Witness ==
    \E r \in Requests :
        /\ TimedOut(r)
        /\ futs[futOf[r]].state = "finished"
        /\ futs[futOf[r]].ok


\* the futures whose coroutine returned a series
Returned == {f \in 1..Len(futs) : futs[f].state = "finished" /\ futs[f].ok}

Unparseable(t) == ~t.isdt /\ ~FromIsoFormat(ReplaceZ(t.text)).ok

\* C5 as claimed: a datetime is kept as it is; "2024-01-01T00:00:00Z" becomes that
\* instant with offset zero; a raw value that does not parse becomes
\* 1970-01-01T00:00:00 UTC, the fields of the epoch origin read on the UTC clock.
C5_Normalization ==
    \A f \in Returned :
        \A i \in 1..Len(futs[f].series.time_dt) :
            LET raw == futs[f].forecast.time[i]
                out == futs[f].series.time_dt[i]
            IN  /\ raw.isdt => out = raw.dt
                /\ (~raw.isdt /\ raw.text = TextZ) => out = DateTime(2024, 1, 1, 0, 0, 0, TRUE, 0)
                /\ Unparseable(raw) => WallSeconds(out) - 60 * out.off = 0

\* what the code does hold to for an unparseable value: a naive datetime that is the
\* epoch origin on the server's local clock
C5_EpochOnLocalClock ==
    \A f \in Returned :
        \A i \in 1..Len(futs[f].series.time_dt) :
            Unparseable(futs[f].forecast.time[i]) =>
                /\ ~futs[f].series.time_dt[i].aware
                /\ Timestamp(futs[f].series.time_dt[i], tzLocal) = 0

\* the instant a time text of a response denotes
TimeOf(txt) == Timestamp(FromIsoFormat(txt).dt, tzLocal)

\* the instant a raw remote timestamp denotes, when it parses
RawInstant(t) ==
    IF t.isdt THEN Timestamp(t.dt, tzLocal)
    ELSE Timestamp(FromIsoFormat(ReplaceZ(t.text)).dt, tzLocal)

NonDecreasing(q) == \A i, j \in 1..Len(q) : i < j => q[i] <= q[j]

Chronological(tm) ==
    /\ \A i \in 1..Len(tm) : ~Unparseable(tm[i])
    /\ NonDecreasing([i \in 1..Len(tm) |-> RawInstant(tm[i])])

\* C6 as claimed: in every successful response the time array is non-decreasing.
C6_TimeSortedAlways ==
    \A r \in Requests :
        Ok200(r) => NonDecreasing([i \in 1..Len(response[r].time) |-> TimeOf(response[r].time[i])])

\* C6 amended: in every successful response time[i] is the ISO text of the i-th remote
\* timestamp normalized, in the remote order with no re-sorting; the array is
\* non-decreasing whenever the remote timestamps all parse and are non-decreasing.
C6_RemoteOrderKept ==
    \A r \in Requests :
        Ok200(r) =>
            LET tm  == ForecastOf(r).time
                out == response[r].time
            IN  /\ Len(out) <= Len(tm)
                /\ \A i \in 1..Len(out) : out[i] = IsoFormat(NormalizeTime(tm[i], tzLocal))
                /\ Chronological(tm) => NonDecreasing([i \in 1..Len(out) |-> TimeOf(out[i])])

C6_Witness ==
    \E r \in Requests :
        /\ Ok200(r)
        /\ Chronological(ForecastOf(r).time)
        /\ \E i \in 1..Len(ForecastOf(r).time) : ~ForecastOf(r).time[i].isdt
        /\ Len(response[r].time) >= 2
        /\ TimeOf(response[r].time[1]) < TimeOf(response[r].time[2])

\* C7: once a request has passed validation its horizon is 120, in api_forecast, in
\* the call of fetch_openmeteo and in meta.hours of a successful response, whatever
\* the body's hours member is.
C7_HorizonAlways120 ==
    \A r \in Requests :
        futOf[r] # 0 =>
            /\ hours[r] = 120
            /\ futs[futOf[r]].hours = 120
            /\ Ok200(r) => response[r].meta.hours = 120

C7_Witness ==
    \E r \in Requests :
        /\ Ok200(r)
        /\ payload[r].hours = JNum(24000)
        /\ response[r].meta.hours = 120

\* C8: a request that got the exception of its fetch operation is answered 500 with
\* "Forecast fetch failed: " followed by the exception text, and its operation made
\* exactly one remote call; no operation ever makes a second remote call.
C8_FailureIs500NoRetry ==
    /\ \A r \in Requests :
           (Answered(r) /\ futOf[r] # 0 /\ ~TimedOut(r) /\ ~futs[futOf[r]].ok) =>
               /\ response[r].status = 500
               /\ response[r].error = <<"Forecast fetch failed: ", futs[futOf[r]].text>>
               /\ response[r].exc = futs[futOf[r]].exc
               /\ futs[futOf[r]].calls = 1
    /\ \A f \in 1..Len(futs) :
           /\ futs[f].calls <= 1
           /\ futs[f].state = "finished" => futs[f].calls = 1

C8_Witness ==
    /\ \E r \in Requests :
           /\ Answered(r)
           /\ response[r].status = 500
           /\ response[r].exc = "OpenMeteoError"
           /\ response[r].error[2] = "Connection reset by peer"
    /\ \E r \in Requests :
           /\ Answered(r)
           /\ response[r].status = 500
           /\ response[r].exc = "TypeError"

\* C9: for every hours, with n = max(1, hours), each series the coroutine returns is
\* the first min(n, L) elements of its remote array in order (the times normalized
\* one by one), and a forecast without missing arrays returns, however short.
C9_HorizonClamp ==
    \A f \in 1..Len(futs) :
        futs[f].state = "finished" =>
            LET fc  == futs[f].forecast
                out == futs[f].series
                n   == IF futs[f].hours >= 1 THEN futs[f].hours ELSE 1
                k(q) == IF Len(q) < n THEN Len(q) ELSE n
            IN  /\ futs[f].ok = (~fc.raises /\ fc.none = {})
                /\ futs[f].ok =>
                       /\ out.wind_dir = SubSeq(fc.wind_dir, 1, k(fc.wind_dir))
                       /\ out.wind_speed = SubSeq(fc.wind_speed, 1, k(fc.wind_speed))
                       /\ out.wind_gust = SubSeq(fc.wind_gust, 1, k(fc.wind_gust))
                       /\ Len(out.time_dt) = k(fc.time)
                       /\ \A i \in 1..k(fc.time) : out.time_dt[i] = NormalizeTime(fc.time[i], tzLocal)

\* a negative hours against a remote response with winds but no times: one wind
\* element is returned, an empty time series, and no error
C9_Witness ==
    \E f \in Returned :
        /\ futs[f].hours < 0
        /\ Len(futs[f].forecast.wind_dir) >= 2
        /\ Len(futs[f].forecast.time) = 0
        /\ Len(futs[f].series.wind_dir) = 1
        /\ Len(futs[f].series.time_dt) = 0

\* C10: every request that passed validation has exactly one future, made for it and
\* for its own lat and lon, and none other; an answer that is not the timeout's is
\* read from that future, and a successful one carries the winds of the location
\* the request asked for.
C10_OwnResultOnly ==
    \A r \in Requests :
        /\ Cardinality({f \in 1..Len(futs) : futs[f].req = r}) = (IF futOf[r] = 0 THEN 0 ELSE 1)
        /\ futOf[r] # 0 =>
               /\ futs[futOf[r]].req = r
               /\ futs[futOf[r]].lat = lat[r]
               /\ futs[futOf[r]].lon = lon[r]
        /\ (Answered(r) /\ futOf[r] # 0 /\ ~TimedOut(r)) =>
               /\ response[r].op = futOf[r]
               /\ response[r].status = (IF futs[futOf[r]].ok THEN 200 ELSE 500)
        /\ Ok200(r) =>
               /\ response[r].wind_dir = futs[futOf[r]].series.wind_dir
               /\ response[r].wind_dir = WindDir(2, SeedOf(lat[r], lon[r]))
               /\ response[r].meta.lat = lat[r]

\* two requests in flight together, answered in the reverse of their submission, one
\* with its series and one with its exception
C10_Witness ==
    \E r, q \in Requests :
        /\ futOf[r] # 0 /\ futOf[r] < futOf[q]
        /\ Ok200(q)
        /\ pc[r] = "blocked"
        /\ futs[futOf[r]].state = "finished"
        /\ ~futs[futOf[r]].ok


=============================================================================
